---- MODULE Spec2Model ----
(***************************************************************************)
(* Model of CJWorkbench/transpose (src/transpose.py): render() and its     *)
(* helper _gen_colnames_and_warn().                                        *)
(*                                                                         *)
(* A string is a sequence of characters; a character is a one-token TLA+   *)
(* string.  A cell is a record with a kind ("text", "number", "timestamp", *)
(* "na").  A pandas DataFrame is a record [index, columns, data] where     *)
(* data[c] is the cell vector of column columns[c]; its row count is       *)
(* Len(index), which pandas keeps even when there are no columns.          *)
(***************************************************************************)
EXTENDS Integers, Sequences, FiniteSets, TLC

VARIABLES
    pc,      \* "render" | "gen" : the pending call; "done" afterwards
    table,   \* the caller's DataFrame object handed to render()
    args,    \* the call's other arguments, and a snapshot of the table as passed
    result   \* the value the call returned

vars == <<pc, table, args, result>>

----------------------------------------------------------------------------
(* Settings                                                                *)

\* settings = Settings(99, 120)
MAX_COLUMNS_PER_TABLE == 99

MAX_BYTES_PER_COLUMN_NAME == 120

----------------------------------------------------------------------------
(* Strings                                                                 *)

\* Representative of the ASCII control characters
ControlChars == {"\t"}

\* Representative of the characters UTF-8 encodes in two bytes
TwoByteChars == {"U+00E9"}

CharBytes(ch) == IF ch \in TwoByteChars THEN 2 ELSE 1

\* len(s.encode("utf-8")): one byte per character, one more for a two-byte one
ByteLen(s) == Len(s) + Cardinality({i \in 1..Len(s) : CharBytes(s[i]) = 2})

Digits == <<"0", "1", "2", "3", "4", "5", "6", "7", "8", "9">>

IsDigit(ch) == \E d \in 1..10 : Digits[d] = ch

DigitValue(ch) == (CHOOSE d \in 1..10 : Digits[d] = ch) - 1

\* str(n) for a non-negative int
RECURSIVE IntToStr(_)
IntToStr(n) ==
    IF n < 10 THEN <<Digits[n + 1]>>
    ELSE IntToStr(n \div 10) \o <<Digits[(n % 10) + 1]>>

\* int(s) for a string of digits
RECURSIVE StrToInt(_)
StrToInt(s) ==
    IF s = <<>> THEN 0
    ELSE 10 * StrToInt(SubSeq(s, 1, Len(s) - 1)) + DigitValue(s[Len(s)])

\* sep.join(strs)
RECURSIVE Join(_, _)
Join(sep, strs) ==
    IF strs = <<>> THEN <<>>
    ELSE IF Len(strs) = 1 THEN strs[1]
    ELSE strs[1] \o sep \o Join(sep, Tail(strs))

----------------------------------------------------------------------------
(* cjwmodule.util.colnames.gen_unique_clean_colnames                       *)
(*                                                                         *)
(* The library is not part of this repository.  It is modelled from the    *)
(* specification's Name Sanitizer and from the outputs test_transpose.py   *)
(* records for it: clean each name, replace an empty one by its positional *)
(* default, bound its byte length, and number a name that is already       *)
(* taken.  A generated (default or numbered) name also steps aside for a   *)
(* name that appears literally in the input.                               *)

IsPrintable(ch) == ch \notin ControlChars

\* The longest prefix of s that fits in n bytes without splitting a character
TruncateBytes(s, n) ==
    LET Fits(k) == ByteLen(SubSeq(s, 1, k)) <= n
    IN  IF ByteLen(s) <= n THEN s
        ELSE SubSeq(s, 1, CHOOSE k \in 0..Len(s) : Fits(k) /\ ~Fits(k + 1))

clean_colname(name) ==
    LET stripped == SelectSeq(name, IsPrintable)
        truncated == TruncateBytes(stripped, MAX_BYTES_PER_COLUMN_NAME)
    IN  [name |-> truncated,
         is_ascii_cleaned |-> stripped # name,
         is_truncated |-> truncated # stripped]

\* "Column {position}", position counted from 1 over the whole output
DefaultName(position) == <<"C", "o", "l", "u", "m", "n", " ">> \o IntToStr(position)

LastSpace(s) ==
    IF \E i \in 1..Len(s) : s[i] = " "
    THEN CHOOSE i \in 1..Len(s) : s[i] = " " /\ \A j \in (i + 1)..Len(s) : s[j] # " "
    ELSE 0

\* s is "<key> <number>"
HasNumber(s) ==
    LET p == LastSpace(s)
    IN  /\ p > 1
        /\ p < Len(s)
        /\ s[p + 1] # "0"
        /\ \A j \in (p + 1)..Len(s) : IsDigit(s[j])

NameKey(s) == IF HasNumber(s) THEN SubSeq(s, 1, LastSpace(s) - 1) ELSE s

NameNumber(s) == IF HasNumber(s) THEN StrToInt(SubSeq(s, LastSpace(s) + 1, Len(s))) ELSE 1

NumberSuffix(k) == <<" ">> \o IntToStr(k)

\* "<key> <k>", the key cut so that the whole name fits the byte limit
NumberedName(key, k) ==
    TruncateBytes(key, MAX_BYTES_PER_COLUMN_NAME - ByteLen(NumberSuffix(k)))
        \o NumberSuffix(k)

\* The first number from k on whose numbered name is not taken
RECURSIVE FirstFreeNumber(_, _, _)
FirstFreeNumber(key, k, taken) ==
    IF NumberedName(key, k) \notin taken THEN k
    ELSE FirstFreeNumber(key, k + 1, taken)

\* The name given to position i, ret holding the names given to 1..i-1
UniqueCleanColname(cleaned, literal, ret, i) ==
    LET c == cleaned[i]
        is_default == c.name = <<>>
        base == IF is_default THEN DefaultName(i) ELSE c.name
        used == {ret[j].name : j \in 1..Len(ret)}
        taken == used \cup literal
        keep == IF is_default THEN base \notin taken ELSE base \notin used
        key == NameKey(base)
        k == FirstFreeNumber(key, NameNumber(base) + 1, taken)
    IN  [name |-> IF keep THEN base ELSE NumberedName(key, k),
         is_ascii_cleaned |-> c.is_ascii_cleaned,
         is_default |-> is_default,
         is_truncated |-> c.is_truncated
             \/ (~keep /\ ByteLen(key) + ByteLen(NumberSuffix(k))
                              > MAX_BYTES_PER_COLUMN_NAME),
         is_numbered |-> ~keep]

\* ret, which holds the names of positions 1..lo-1, extended by the names of
\* positions lo..hi in that order.  The range is halved rather than peeled,
\* and the second half starts where the first ended: that keeps the
\* evaluation shallow for a hundred names.
RECURSIVE GenUnique(_, _, _, _, _)
GenUnique(cleaned, literal, ret, lo, hi) ==
    IF lo > hi THEN ret
    ELSE IF lo = hi THEN Append(ret, UniqueCleanColname(cleaned, literal, ret, lo))
    ELSE LET half == GenUnique(cleaned, literal, ret, lo, (lo + hi) \div 2)
         IN  GenUnique(cleaned, literal, half, Len(half) + 1, hi)

gen_unique_clean_colnames(names) ==
    LET cleaned == [i \in 1..Len(names) |-> clean_colname(names[i])]
        literal == {cleaned[i].name : i \in 1..Len(names)} \ {<<>>}
    IN  GenUnique(cleaned, literal, <<>>, 1, Len(names))

----------------------------------------------------------------------------
(* _gen_colnames_and_warn                                                  *)

\* i18n.trans(message_id, default, arguments)
trans(id, arguments) == [id |-> id, arguments |-> arguments]

\* names = []; n_ascii_cleaned = 0; first_ascii_cleaned = None; ... (None is
\* <<>> here: it is read only when its counter is positive)
NoCounts ==
    [names |-> <<>>,
     n_ascii_cleaned |-> 0, first_ascii_cleaned |-> <<>>,
     n_default |-> 0, first_default |-> <<>>,
     n_truncated |-> 0, first_truncated |-> <<>>,
     n_numbered |-> 0, first_numbered |-> <<>>]

\* The loop body with "if n == 0" forgotten: first_* ends up holding the last
\* flagged name instead of the first
CountOneLastWins(c, uccolname) ==
    LET name == uccolname.name
    IN  [names |-> Append(c.names, name),
         n_ascii_cleaned |->
             IF uccolname.is_ascii_cleaned THEN c.n_ascii_cleaned + 1 ELSE c.n_ascii_cleaned,
         first_ascii_cleaned |->
             IF uccolname.is_ascii_cleaned THEN name ELSE c.first_ascii_cleaned,
         n_default |-> IF uccolname.is_default THEN c.n_default + 1 ELSE c.n_default,
         first_default |-> IF uccolname.is_default THEN name ELSE c.first_default,
         n_truncated |->
             IF uccolname.is_truncated THEN c.n_truncated + 1 ELSE c.n_truncated,
         first_truncated |->
             IF uccolname.is_truncated THEN name ELSE c.first_truncated,
         n_numbered |-> IF uccolname.is_numbered THEN c.n_numbered + 1 ELSE c.n_numbered,
         first_numbered |-> IF uccolname.is_numbered THEN name ELSE c.first_numbered]

\* One pass of the loop body over uccolname
CountOne(c, uccolname) ==
    LET name == uccolname.name
    IN  [names |-> Append(c.names, name),
         n_ascii_cleaned |->
             IF uccolname.is_ascii_cleaned THEN c.n_ascii_cleaned + 1 ELSE c.n_ascii_cleaned,
         first_ascii_cleaned |->
             IF uccolname.is_ascii_cleaned /\ c.n_ascii_cleaned = 0 THEN name
             ELSE c.first_ascii_cleaned,
         n_default |-> IF uccolname.is_default THEN c.n_default + 1 ELSE c.n_default,
         first_default |->
             IF uccolname.is_default /\ c.n_default = 0 THEN name ELSE c.first_default,
         n_truncated |->
             IF uccolname.is_truncated THEN c.n_truncated + 1 ELSE c.n_truncated,
         first_truncated |->
             IF uccolname.is_truncated /\ c.n_truncated = 0 THEN name
             ELSE c.first_truncated,
         n_numbered |-> IF uccolname.is_numbered THEN c.n_numbered + 1 ELSE c.n_numbered,
         first_numbered |->
             IF uccolname.is_numbered /\ c.n_numbered = 0 THEN name ELSE c.first_numbered]

\* for uccolname in gen_unique_clean_colnames(...): the loop over positions
\* lo..hi in that order, c holding names and counters after positions 1..lo-1.
\* The range is halved rather than peeled, and the second half starts where
\* the first ended: that keeps the evaluation shallow for a hundred names.
RECURSIVE CountFlags(_, _, _, _)
CountFlags(uccolnames, c, lo, hi) ==
    IF lo > hi THEN c
    ELSE IF lo = hi THEN CountOne(c, uccolnames[lo])
    ELSE LET half == CountFlags(uccolnames, c, lo, (lo + hi) \div 2)
         IN  CountFlags(uccolnames, half, Len(half.names) + 1, hi)

\* The four blocks with the last one copied from the second and its counter
\* left unchanged: the numbered warning reports the defaulted names
NameWarningsNumberedFromDefault(c) ==
    (IF c.n_ascii_cleaned > 0
     THEN <<trans("warnings.removedSpecialCharactersFromColumnNames",
                  [n_columns |-> c.n_ascii_cleaned,
                   column_name |-> c.first_ascii_cleaned])>>
     ELSE <<>>)
    \o (IF c.n_default > 0
        THEN <<trans("warnings.renamedEmptyColumnNames",
                     [n_columns |-> c.n_default, column_name |-> c.first_default])>>
        ELSE <<>>)
    \o (IF c.n_truncated > 0
        THEN <<trans("warnings.truncatedColumnNames",
                     [n_columns |-> c.n_truncated,
                      column_name |-> c.first_truncated,
                      n_bytes |-> MAX_BYTES_PER_COLUMN_NAME])>>
        ELSE <<>>)
    \o (IF c.n_default > 0
        THEN <<trans("warnings.renamedDuplicateColumnNames",
                     [n_columns |-> c.n_default, column_name |-> c.first_default])>>
        ELSE <<>>)

\* The four "if n > 0: warnings.append(i18n.trans(...))" blocks, in order
NameWarnings(c) ==
    (IF c.n_ascii_cleaned > 0
     THEN <<trans("warnings.removedSpecialCharactersFromColumnNames",
                  [n_columns |-> c.n_ascii_cleaned,
                   column_name |-> c.first_ascii_cleaned])>>
     ELSE <<>>)
    \o (IF c.n_default > 0
        THEN <<trans("warnings.renamedEmptyColumnNames",
                     [n_columns |-> c.n_default, column_name |-> c.first_default])>>
        ELSE <<>>)
    \o (IF c.n_truncated > 0
        THEN <<trans("warnings.truncatedColumnNames",
                     [n_columns |-> c.n_truncated,
                      column_name |-> c.first_truncated,
                      n_bytes |-> MAX_BYTES_PER_COLUMN_NAME])>>
        ELSE <<>>)
    \o (IF c.n_numbered > 0
        THEN <<trans("warnings.renamedDuplicateColumnNames",
                     [n_columns |-> c.n_numbered, column_name |-> c.first_numbered])>>
        ELSE <<>>)

\* input_names with the override forgotten
input_names_no_override(first_colname, first_column) ==
    <<first_column.name>> \o first_column.values

\* input_names = [first_colname or first_column.name] + list(first_column.values)
input_names(first_colname, first_column) ==
    <<IF first_colname # <<>> THEN first_colname ELSE first_column.name>>
        \o first_column.values

\* The candidates handed back as they are, gen_unique_clean_colnames not called
gen_colnames_unsanitized(first_colname, first_column) ==
    [names |-> input_names(first_colname, first_column), warnings |-> <<>>]

\* GenColnamesResult(names, warnings)
gen_colnames_and_warn(first_colname, first_column) ==
    LET uccolnames == gen_unique_clean_colnames(input_names(first_colname, first_column))
        c == CountFlags(uccolnames, NoCounts, 1, Len(uccolnames))
    IN  [names |-> c.names, warnings |-> NameWarnings(c)]

----------------------------------------------------------------------------
(* Cells and pandas operations                                             *)

Text(s) == [kind |-> "text", s |-> s]

Number(n) == [kind |-> "number", n |-> n]

\* The instant n seconds after 1970-01-01 00:00:00, n < 10
Timestamp(n) == [kind |-> "timestamp", n |-> n]

\* A missing value: None, NaN or NaT
NA == [kind |-> "na"]

\* Series.isna() / Series.isnull(), for one cell
isna(cell) == cell.kind = "na"

\* A number column that holds a missing value is float64; otherwise int64
IsFloat(cells) ==
    /\ \E i \in 1..Len(cells) : cells[i].kind = "number"
    /\ \E i \in 1..Len(cells) : isna(cells[i])

\* str(value) as Series.astype(str) applies it to one cell
StrOfCell(cell, float) ==
    CASE cell.kind = "text" -> cell.s
      [] cell.kind = "number" ->
            IntToStr(cell.n) \o (IF float THEN <<".", "0">> ELSE <<>>)
      [] cell.kind = "timestamp" ->
            <<"1", "9", "7", "0", "-", "0", "1", "-", "0", "1", " ",
              "0", "0", ":", "0", "0", ":", "0", Digits[cell.n + 1]>>
      [] OTHER -> <<"n", "a", "n">>

\* Series.astype(str): every cell becomes text, a missing one the text "nan"
astype_str(cells) ==
    [i \in 1..Len(cells) |-> Text(StrOfCell(cells[i], IsFloat(cells)))]

\* pd.RangeIndex(n)
RangeIndex(n) == [i \in 1..n |-> i - 1]

\* pd.DataFrame()
EmptyDataFrame == [index |-> <<>>, columns |-> <<>>, data |-> <<>>]

\* len(table)
NRows(df) == Len(df.index)

\* The positions of the rows whose label is at most `after`; the index is sorted
RowsUpTo(df, after) == {i \in 1..NRows(df) : df.index[i] <= after}

\* truncate(after=MAX_COLUMNS_PER_TABLE) for truncate(after=MAX_COLUMNS_PER_TABLE - 1):
\* one row too many is kept
truncate_one_late(df, after) ==
    LET n == Cardinality(RowsUpTo(df, after + 1))
    IN  [index |-> SubSeq(df.index, 1, n),
         columns |-> df.columns,
         data |-> [c \in 1..Len(df.columns) |-> SubSeq(df.data[c], 1, n)]]

\* table.truncate(after=after): a new table
truncate(df, after) ==
    LET n == Cardinality(RowsUpTo(df, after))
    IN  [index |-> SubSeq(df.index, 1, n),
         columns |-> df.columns,
         data |-> [c \in 1..Len(df.columns) |-> SubSeq(df.data[c], 1, n)]]

\* table.drop(table.columns[0], axis=1, inplace=True)
drop_first(df) ==
    [index |-> df.index, columns |-> Tail(df.columns), data |-> Tail(df.data)]

\* The transpose with the output rows in reverse column order
transpose_rows_reversed(df, name) ==
    [index |-> RangeIndex(Len(df.columns)),
     columns |-> <<name>> \o df.index,
     data |-> <<[k \in 1..Len(df.columns) |-> Text(df.columns[k])]>>
              \o [r \in 1..NRows(df) |->
                    [k \in 1..Len(df.columns) |-> df.data[Len(df.columns) + 1 - k][r]]]]

\* table.T followed by ret.index.name = name; ret.reset_index(inplace=True):
\* one row per column of df, the column's name in output column 0
transpose_reset_index(df, name) ==
    [index |-> RangeIndex(Len(df.columns)),
     columns |-> <<name>> \o df.index,
     data |-> <<[k \in 1..Len(df.columns) |-> Text(df.columns[k])]>>
              \o [r \in 1..NRows(df) |-> [k \in 1..Len(df.columns) |-> df.data[k][r]]]]

----------------------------------------------------------------------------
(* render                                                                  *)

\* '"%s"' % column
Quoted(column) == <<"\"">> \o column \o <<"\"">>

\* warnings.append(i18n.trans("warnings.tooManyRows", ...))
TooManyRowsWarning ==
    trans("warnings.tooManyRows", [max_columns |-> MAX_COLUMNS_PER_TABLE])

\* The quick fix both dict warnings carry: prepend "converttotext" on colnames
QuickFix(text, colnames) ==
    [text |-> text,
     action |-> "prependModule",
     args |-> <<"converttotext", [colnames |-> colnames]>>]

\* The header warning without its quick fix
HeadersConvertedNoQuickFix(column) ==
    [message |-> trans("headersConvertedToText.error", [column_name |-> column]),
     quickFixes |-> <<>>]

\* The warning appended when input_columns[column].type != "text"
HeadersConvertedWarning(column) ==
    [message |-> trans("headersConvertedToText.error", [column_name |-> column]),
     quickFixes |->
         <<QuickFix(trans("headersConvertedToText.quick_fix.text",
                          [column_name |-> Quoted(column)]),
                    <<column>>)>>]

\* na = first_column.isna(); first_column = first_column.astype(str);
\* first_column[na] = ""
header_values(cells) ==
    [i \in 1..Len(cells) |->
        IF isna(cells[i]) THEN <<>> ELSE astype_str(cells)[i].s]

\* input_types with "if c.name != column" forgotten: the pivot column counts
input_types_with_pivot(input_columns, column) ==
    {input_columns[c].type : c \in DOMAIN input_columns}

\* set(c.type for c in input_columns.values() if c.name != column)
input_types(input_columns, column) ==
    {input_columns[c].type :
        c \in {d \in DOMAIN input_columns : input_columns[d].name # column}}

\* [c for c in table.columns if input_columns[c].type != "text"]
to_convert(df, input_columns) ==
    LET NotText(c) == input_columns[c].type # "text"
    IN  SelectSeq(df.columns, NotText)

\* The warning appended when len(input_types) > 1
DifferentColumnTypesWarning(colnames) ==
    LET QuotedName(i) == Quoted(colnames[i])
        cols_str == Join(<<",", " ">>, [i \in 1..Len(colnames) |-> QuotedName(i)])
    IN  [message |-> trans("differentColumnTypes.error",
                           [n_columns |-> Len(colnames), column_names |-> cols_str]),
         quickFixes |->
             <<QuickFix(trans("warnings.differentColumnTypes.quick_fix.text",
                              [column_names |-> cols_str]),
                        colnames)>>]

\* na = table[colname].isnull(); table[colname] = table[colname].astype(str);
\* table[colname][na] = np.nan
convert_column(cells) ==
    [i \in 1..Len(cells) |-> IF isna(cells[i]) THEN NA ELSE astype_str(cells)[i]]

\* for colname in to_convert: ...
convert_columns(df, colnames) ==
    LET Listed(c) == \E i \in 1..Len(colnames) : colnames[i] = df.columns[c]
    IN  [df EXCEPT !.data =
            [c \in 1..Len(df.columns) |->
                IF Listed(c) THEN convert_column(df.data[c]) ELSE df.data[c]]]

\* return (ret, warnings) if warnings else ret
Returned(ret, warnings) ==
    IF warnings # <<>>
    THEN [shape |-> "tuple", table |-> ret, warnings |-> warnings]
    ELSE [shape |-> "table", table |-> ret]

\* render(table, params, input_columns=input_columns): the value returned, and
\* the caller's table object as the call leaves it.  truncate() rebinds the
\* local name to a new table; every later statement works in place on whatever
\* the local name is bound to.
render(tbl, params, input_columns) ==
    LET too_many == NRows(tbl) > MAX_COLUMNS_PER_TABLE
        t1 == IF too_many THEN truncate(tbl, MAX_COLUMNS_PER_TABLE - 1) ELSE tbl
        warnings1 == IF too_many THEN <<TooManyRowsWarning>> ELSE <<>>
    IN  IF Len(t1.columns) = 0
        THEN [ret |-> [shape |-> "table", table |-> EmptyDataFrame], table |-> tbl]
        ELSE
            LET column == t1.columns[1]
                first_column == [name |-> column, values |-> header_values(t1.data[1])]
                t2 == drop_first(t1)
                warnings2 ==
                    warnings1 \o (IF input_columns[column].type # "text"
                                  THEN <<HeadersConvertedWarning(column)>>
                                  ELSE <<>>)
                gen_headers_result ==
                    gen_colnames_and_warn(params.firstcolname, first_column)
                warnings3 == warnings2 \o gen_headers_result.warnings
                mixed == Cardinality(input_types(input_columns, column)) > 1
                warnings4 ==
                    warnings3 \o (IF mixed
                                  THEN <<DifferentColumnTypesWarning(
                                             to_convert(t2, input_columns))>>
                                  ELSE <<>>)
                t3 == IF mixed
                      THEN convert_columns(t2, to_convert(t2, input_columns))
                      ELSE t2
                t4 == [t3 EXCEPT !.index = Tail(gen_headers_result.names)]
                ret == transpose_reset_index(t4, gen_headers_result.names[1])
            IN  [ret |-> Returned(ret, warnings4),
                 table |-> IF too_many THEN tbl ELSE t4]

----------------------------------------------------------------------------
(* The calls explored                                                      *)

\* Most columns of a table
MaxCols == 3

\* Most rows of a table whose cells are enumerated one by one
MaxRows == 2

\* Most cells of a table whose cells are enumerated one by one
MaxCells == 8

\* Tables around the row cap have MAX_COLUMNS_PER_TABLE + 0..MaxExtraRows rows
MaxExtraRows == 1

\* Most values of the first_column handed to _gen_colnames_and_warn directly
MaxNames == 3

Types == {"text", "number", "timestamp"}

Letters == <<"A", "B", "C", "D", "E", "F">>

\* The name of the c-th input column
ColumnName(c) == <<Letters[c]>>

\* params["firstcolname"]: empty, whitespace only, or equal to a pivot value
FirstColnames == {<<>>, <<" ">>, <<"b">>}

\* The cells a column of a declared type may hold
PivotPool(type) ==
    CASE type = "text" -> {Text(<<>>), Text(<<"b">>), NA}
      [] type = "number" -> {Number(3), NA}
      [] OTHER -> {Timestamp(0)}

DataPool(type) ==
    CASE type = "text" -> {Text(<<"c">>), NA}
      [] type = "number" -> {Number(3), NA}
      [] OTHER -> {Timestamp(0)}

\* Every choice of cells for columns 1..c of the declared types
RECURSIVE SmallData(_, _, _)
SmallData(types, nrows, c) ==
    IF c = 0 THEN {<<>>}
    ELSE {Append(d, col) :
            d \in SmallData(types, nrows, c - 1),
            col \in [1..nrows -> IF c = 1 THEN PivotPool(types[c])
                                 ELSE DataPool(types[c])]}

\* A column of nrows distinct cells: 0, 1, ... or "r0", "r1", ...
RangeColumn(type, nrows) ==
    [r \in 1..nrows |->
        IF type = "number" THEN Number(r - 1) ELSE Text(<<"r">> \o IntToStr(r - 1))]

\* The input tables: every small table over the pools, and the tables of
\* distinct cells that reach or pass the row cap
InputData(types, nrows) ==
    IF nrows <= MaxRows
    THEN IF nrows * Len(types) <= MaxCells THEN SmallData(types, nrows, Len(types))
         ELSE {}
    ELSE IF \A c \in 1..Len(types) : types[c] # "timestamp"
    THEN {[c \in 1..Len(types) |-> RangeColumn(types[c], nrows)]}
    ELSE {}

RowCounts ==
    (0..MaxRows) \cup {MAX_COLUMNS_PER_TABLE + d : d \in 0..MaxExtraRows}

\* The names handed to _gen_colnames_and_warn directly: empty, plain, with a
\* control character, a default name, a numbered name, and two names over the
\* byte limit (the second with a two-byte character across the limit)
NamePool ==
    {<<>>,
     <<"b">>,
     <<"\t", "b">>,
     <<"C", "o", "l", "u", "m", "n", " ", "3">>,
     <<"b", " ", "2">>,
     [i \in 1..(MAX_BYTES_PER_COLUMN_NAME + 1) |-> "b"],
     [i \in 1..(MAX_BYTES_PER_COLUMN_NAME + 1) |->
        IF i = MAX_BYTES_PER_COLUMN_NAME THEN "U+00E9" ELSE "b"]}

NoResult == [shape |-> "none"]

\* A pending call of render(table, params, input_columns=...)
InitRender ==
    \E ncols \in 0..MaxCols, nrows \in RowCounts, firstcolname \in FirstColnames :
        \E types \in [1..ncols -> Types] :
            \E data \in InputData(types, nrows) :
                LET df == [index |-> RangeIndex(nrows),
                           columns |-> [c \in 1..ncols |-> ColumnName(c)],
                           data |-> data]
                IN  /\ pc = "call"
                    /\ table = df
                    /\ args = [call |-> "render",
                               table |-> df,
                               params |-> [firstcolname |-> firstcolname],
                               input_columns |->
                                   [name \in {ColumnName(c) : c \in 1..ncols} |->
                                       [name |-> name,
                                        type |-> types[CHOOSE c \in 1..ncols :
                                                           ColumnName(c) = name]]]]
                    /\ result = NoResult

\* A pending call of _gen_colnames_and_warn(first_colname, first_column)
InitGen ==
    \E first_colname \in FirstColnames, n \in 0..MaxNames :
        \E values \in [1..n -> NamePool] :
            /\ pc = "call"
            /\ table = EmptyDataFrame
            /\ args = [call |-> "gen",
                       first_colname |-> first_colname,
                       first_column |-> [name |-> ColumnName(1), values |-> values]]
            /\ result = NoResult

Init == InitRender \/ InitGen

Render ==
    /\ pc = "call"
    /\ args.call = "render"
    /\ LET r == render(table, args.params, args.input_columns)
       IN  /\ result' = r.ret
           /\ table' = r.table
    /\ pc' = "done"
    /\ UNCHANGED args

GenColnamesAndWarn ==
    /\ pc = "call"
    /\ args.call = "gen"
    /\ result' = gen_colnames_and_warn(args.first_colname, args.first_column)
    /\ pc' = "done"
    /\ UNCHANGED <<table, args>>

Next == Render \/ GenColnamesAndWarn

Spec == Init /\ [][Next]_vars

----------------------------------------------------------------------------
(* What the properties read off a finished call                            *)

RenderDone == pc = "done" /\ args.call = "render"

GenDone == pc = "done" /\ args.call = "gen"

\* The table as it was passed to render()
In == args.table

NCols == Len(In.columns)

\* The rows the cap lets through
Kept == IF NRows(In) > MAX_COLUMNS_PER_TABLE THEN MAX_COLUMNS_PER_TABLE ELSE NRows(In)

\* The table render() returned, bare or paired
Out == result.table

\* The warnings render() returned: none with a bare table
OutWarnings == IF result.shape = "tuple" THEN result.warnings ELSE <<>>

DeclaredType(c) == args.input_columns[In.columns[c]].type

NonPivotTypes == {DeclaredType(c) : c \in 2..NCols}

Mixed == Cardinality(NonPivotTypes) > 1

\* The non-pivot columns the type unification has to turn into text
Coerced(c) == c \in 2..NCols /\ Mixed /\ DeclaredType(c) # "text"

CoercedNames ==
    LET IsCoerced(name) == \E c \in 2..NCols : In.columns[c] = name /\ Coerced(c)
    IN  SelectSeq(In.columns, IsCoerced)

\* The cell of input column c, row r, as a coerced or an untouched column shows it
ExpectedCell(c, r) ==
    LET cells == SubSeq(In.data[c], 1, Kept)
    IN  IF Coerced(c) /\ ~isna(cells[r])
        THEN Text(StrOfCell(cells[r], IsFloat(cells)))
        ELSE cells[r]

\* A plain i18n message / a dict warning with the given message id
IsMessage(w, id) == "id" \in DOMAIN w /\ w.id = id

IsDictWarning(w, id) == "message" \in DOMAIN w /\ w.message.id = id

Count(ws, Test(_)) == Cardinality({i \in 1..Len(ws) : Test(ws[i])})

IsTooManyRows(w) == IsMessage(w, "warnings.tooManyRows")

IsHeadersConverted(w) == IsDictWarning(w, "headersConvertedToText.error")

IsDifferentTypes(w) == IsDictWarning(w, "differentColumnTypes.error")

\* The column lists of all quick fixes the result carries, in order
RECURSIVE QuickFixColnames(_)
QuickFixColnames(ws) ==
    IF ws = <<>> THEN <<>>
    ELSE (IF "quickFixes" \in DOMAIN Head(ws)
          THEN [i \in 1..Len(Head(ws).quickFixes) |->
                    Head(ws).quickFixes[i].args[2].colnames]
          ELSE <<>>)
         \o QuickFixColnames(Tail(ws))

Range(seq) == {seq[i] : i \in 1..Len(seq)}

\* The first-column candidate and the pivot values of the finished call
CallFirstColname ==
    IF args.call = "gen" THEN args.first_colname ELSE args.params.firstcolname

CallPivotName == IF args.call = "gen" THEN args.first_column.name ELSE In.columns[1]

CallPivotValues ==
    IF args.call = "gen" THEN args.first_column.values
    ELSE header_values(SubSeq(In.data[1], 1, Kept))

\* A call that generates names: _gen_colnames_and_warn, or render on a table
\* that has a pivot column
NamesDone == GenDone \/ (RenderDone /\ NCols >= 1)

\* The names the finished call generated
OutNames == IF args.call = "gen" THEN result.names ELSE Out.columns

----------------------------------------------------------------------------
(* C1: the transpose                                                       *)

\* One output row per non-pivot column, one output column per kept row after
\* the first, the generated names as the output's column names, and the
\* non-pivot column names down output column 0
C1_Frame ==
    /\ Out.index = RangeIndex(NCols - 1)
    /\ Len(Out.data) = NRows(In) + 1
    /\ Out.columns =
           gen_colnames_and_warn(CallFirstColname,
                                 [name |-> CallPivotName,
                                  values |-> CallPivotValues]).names
    /\ \A k \in 1..(NCols - 1) : Out.data[1][k] = Text(In.columns[k + 1])

C1_Applies == RenderDone /\ NCols >= 1 /\ NRows(In) <= MAX_COLUMNS_PER_TABLE

\* C1 as claimed: for every table with a column and no more rows than the cap,
\* output row k is the k-th non-pivot column: its name in output column 0 and,
\* in output column r+1, the input cell at (row r, k-th non-pivot column); the
\* output's column names are the generated names.
C1_CellsAreInputCells ==
    C1_Applies =>
        /\ C1_Frame
        /\ \A k \in 1..(NCols - 1), r \in 1..NRows(In) :
               Out.data[r + 1][k] = In.data[k + 1][r]

\* C1 as amended: the same, except that output column r+1 of row k holds the
\* text of the input cell when the k-th non-pivot column is a non-text column
\* and the non-pivot columns have more than one declared type (a missing cell
\* stays missing).
C1_CellsAreInputCellsOrTheirText ==
    C1_Applies =>
        /\ C1_Frame
        /\ \A k \in 1..(NCols - 1), r \in 1..NRows(In) :
               Out.data[r + 1][k] = ExpectedCell(k + 1, r)

\* A two-row table whose number column was turned into text next to a text
\* column whose rows differ
C1_Witness ==
    /\ C1_Applies
    /\ NCols = 3
    /\ NRows(In) = 2
    /\ Coerced(3)
    /\ In.data[2] = <<Text(<<"c">>), NA>>
    /\ In.data[3] = <<Number(3), Number(3)>>
    /\ Out.data[2] = <<Text(<<"c">>), Text(<<"3">>)>>
    /\ Out.data[3] = <<NA, Text(<<"3">>)>>

----------------------------------------------------------------------------
(* C3: the row cap                                                         *)

----------------------------------------------------------------------------
(* C4: cross-column type unification                                       *)

\* C4: with more than one declared type among the non-pivot columns, every
\* non-text non-pivot column comes out as text, its missing cells still
\* missing, and exactly one warning names those columns, its quick fix
\* listing exactly them; with at most one declared type no non-pivot cell
\* is changed and no such warning is returned.
C4_TypeUnification ==
    (RenderDone /\ NCols >= 1) =>
        /\ \A k \in 1..(NCols - 1), r \in 1..Kept :
               LET cell == In.data[k + 1][r]
                   out == Out.data[r + 1][k]
               IN  IF Mixed /\ DeclaredType(k + 1) # "text"
                   THEN /\ isna(cell) <=> isna(out)
                        /\ ~isna(cell) => out.kind = "text"
                   ELSE out = cell
        /\ Count(OutWarnings, IsDifferentTypes) = IF Mixed THEN 1 ELSE 0
        /\ \A i \in 1..Len(OutWarnings) :
               IsDifferentTypes(OutWarnings[i]) =>
                   /\ OutWarnings[i].message.arguments.n_columns = Len(CoercedNames)
                   /\ OutWarnings[i].message.arguments.column_names =
                          Join(<<",", " ">>,
                               [j \in 1..Len(CoercedNames) |-> Quoted(CoercedNames[j])])
                   /\ Len(OutWarnings[i].quickFixes) = 1
                   /\ OutWarnings[i].quickFixes[1].action = "prependModule"
                   /\ OutWarnings[i].quickFixes[1].args[1] = "converttotext"
                   /\ OutWarnings[i].quickFixes[1].args[2].colnames = CoercedNames

\* A number column with a missing cell, coerced next to a text column
C4_Witness ==
    /\ RenderDone
    /\ NCols = 3
    /\ NRows(In) = 2
    /\ DeclaredType(2) = "text"
    /\ DeclaredType(3) = "number"
    /\ In.data[3] = <<Number(3), NA>>
    /\ Out.data[2][2] = Text(<<"3", ".", "0">>)
    /\ Out.data[3][2] = NA
    /\ Count(OutWarnings, IsDifferentTypes) = 1

----------------------------------------------------------------------------
(* C5: the caller's table                                                  *)

\* C5 as claimed: after a call of render the table object that was passed in
\* has the columns, row labels and cells it had before the call.
C5_TableNotMutated == RenderDone => table = In

----------------------------------------------------------------------------
(* C6: quick fixes                                                         *)

C6_BothWarnings ==
    /\ RenderDone
    /\ Count(OutWarnings, IsHeadersConverted) >= 1
    /\ Count(OutWarnings, IsDifferentTypes) >= 1

\* C6 as claimed: when the header warning and the cross-type warning are both
\* returned, one quick fix lists the pivot column and every coerced non-pivot
\* column.
C6_OneCombinedQuickFix ==
    C6_BothWarnings =>
        \E i \in 1..Len(QuickFixColnames(OutWarnings)) :
            ({In.columns[1]} \cup Range(CoercedNames))
                \subseteq Range(QuickFixColnames(OutWarnings)[i])

\* C6 as amended: when both warnings are returned the result carries two quick
\* fixes, none dropped: the header warning's lists the pivot column alone and
\* the cross-type warning's lists exactly the coerced non-pivot columns, so
\* that together they list the pivot column and every coerced column.
C6_TwoQuickFixes ==
    C6_BothWarnings =>
        QuickFixColnames(OutWarnings) = <<<<In.columns[1]>>, CoercedNames>>

\* A numeric, B text, C numeric: quick fixes for A and for C
C6_Witness ==
    /\ C6_BothWarnings
    /\ NCols = 3
    /\ DeclaredType(1) = "number"
    /\ DeclaredType(2) = "text"
    /\ DeclaredType(3) = "number"
    /\ QuickFixColnames(OutWarnings) = <<<<ColumnName(1)>>, <<ColumnName(3)>>>>

----------------------------------------------------------------------------
(* C8: the shape of the result                                             *)

\* The flags of the names a finished render call generated
RenderNameFlags ==
    gen_unique_clean_colnames(
        input_names(CallFirstColname,
                    [name |-> CallPivotName, values |-> CallPivotValues]))

\* A warning was produced during the call: rows truncated, header coerced, a
\* name cleaned, defaulted, truncated or numbered, columns coerced
WarningProduced ==
    \/ NRows(In) > MAX_COLUMNS_PER_TABLE
    \/ /\ NCols >= 1
       /\ \/ DeclaredType(1) # "text"
          \/ Mixed
          \/ \E i \in 1..Len(RenderNameFlags) :
                 \/ RenderNameFlags[i].is_ascii_cleaned
                 \/ RenderNameFlags[i].is_default
                 \/ RenderNameFlags[i].is_truncated
                 \/ RenderNameFlags[i].is_numbered

\* C8 as claimed: render returns the bare table exactly when no warning was
\* produced during the call, the zero-column short circuit included.
C8_BareIffNoWarning ==
    RenderDone => (result.shape = "table" <=> ~WarningProduced)

----------------------------------------------------------------------------
(* C2, C7, C9, C10: the generated names and their warnings                 *)

\* The override is empty or whitespace only
IsBlank(str) == \A i \in 1..Len(str) : str[i] = " "

\* The raw name candidates, position 0 first
Candidates ==
    <<IF CallFirstColname # <<>> THEN CallFirstColname ELSE CallPivotName>>
        \o CallPivotValues

\* The candidates, each cleaned and cut to the byte limit
Cleaned == [i \in 1..Len(Candidates) |-> clean_colname(Candidates[i]).name]

\* Candidate i cleaned, defaulted when empty, and cut to the byte limit
Base(cleaned, i) == IF cleaned[i] = <<>> THEN DefaultName(i) ELSE cleaned[i]

\* The non-empty names the candidates spell out themselves
LiteralNames(cleaned) == Range(cleaned) \ {<<>>}

\* The names assigned before position i
Earlier(names, i) == {names[j] : j \in 1..(i - 1)}

C7_OverrideUnlessBlank ==
    NamesDone =>
        OutNames[1] =
            clean_colname(IF ~IsBlank(CallFirstColname) THEN CallFirstColname
                          ELSE CallPivotName).name

\* C7 as amended: the name at position 0 is generated from the override when
\* the override is non-empty, whitespace included (nothing is trimmed), and
\* from the pivot column's name when the override is the empty string.
C7_OverrideUnlessEmpty ==
    NamesDone =>
        OutNames[1] =
            clean_colname(IF CallFirstColname # <<>> THEN CallFirstColname
                          ELSE CallPivotName).name

\* A whitespace-only override, kept as the first column's name
C7_Witness ==
    /\ RenderDone
    /\ NCols >= 1
    /\ CallFirstColname = <<" ">>
    /\ CallPivotName = <<"A">>
    /\ Out.columns[1] = <<" ">>

\* The one warning of a flag that some name carries: its count and the
\* leftmost name that carries it
ExpectedFlagWarning(flags, flag, id) ==
    LET at == {i \in 1..Len(flags) : flags[i][flag]}
        first == CHOOSE i \in at : \A j \in at : i <= j
        n == Cardinality(at)
    IN  IF at = {} THEN <<>>
        ELSE <<[id |-> id,
                arguments |->
                    IF flag = "is_truncated"
                    THEN [n_columns |-> n, column_name |-> flags[first].name,
                          n_bytes |-> MAX_BYTES_PER_COLUMN_NAME]
                    ELSE [n_columns |-> n, column_name |-> flags[first].name]]>>

\* C9: per flag one warning if a generated name carries the flag and none
\* otherwise, with the number of names that carry it and the leftmost of them,
\* in the order ascii-cleaned, defaulted, truncated, numbered; a name with
\* several flags counts in each.
C9_OneWarningPerFlag ==
    GenDone =>
        LET flags == gen_unique_clean_colnames(Candidates)
        IN  result.warnings =
                ExpectedFlagWarning(flags, "is_ascii_cleaned",
                                    "warnings.removedSpecialCharactersFromColumnNames")
                \o ExpectedFlagWarning(flags, "is_default",
                                       "warnings.renamedEmptyColumnNames")
                \o ExpectedFlagWarning(flags, "is_truncated",
                                       "warnings.truncatedColumnNames")
                \o ExpectedFlagWarning(flags, "is_numbered",
                                       "warnings.renamedDuplicateColumnNames")

\* Two cleaned names of which the second is also numbered, and a defaulted one:
\* three warnings, the first counting two names
C9_Witness ==
    /\ GenDone
    /\ args.first_colname = <<>>
    /\ args.first_column.values = <<<<"\t", "b">>, <<"\t", "b">>, <<>>>>
    /\ Len(result.warnings) = 3
    /\ result.warnings[1].arguments = [n_columns |-> 2, column_name |-> <<"b">>]
    /\ result.warnings[3].arguments =
           [n_columns |-> 1, column_name |-> <<"b", " ", "2">>]

\* The count the numbered warning of the finished call carries
NumberedCount ==
    LET IsNumbered(w) == IsMessage(w, "warnings.renamedDuplicateColumnNames")
        ws == IF args.call = "gen" THEN result.warnings ELSE OutWarnings
    IN  IF Count(ws, IsNumbered) = 0 THEN 0
        ELSE ws[CHOOSE i \in 1..Len(ws) : IsNumbered(ws[i])].arguments.n_columns

\* name is base followed by a separator and the first integer >= 2 that no
\* earlier name uses
IsFirstUnusedSuffix(name, base, earlier) ==
    \E k \in 2..(Cardinality(earlier) + 2) :
        /\ name = base \o NumberSuffix(k)
        /\ \A m \in 2..(k - 1) : (base \o NumberSuffix(m)) \in earlier

StepsAside(names, cleaned, i) ==
    \/ Base(cleaned, i) \in Earlier(names, i)
    \/ cleaned[i] = <<>> /\ Base(cleaned, i) \in LiteralNames(cleaned)

\* name ends in a separator and a number >= 2
EndsInNumber(name) == HasNumber(name) /\ NameNumber(name) >= 2

====
